---- MODULE Spec2Model ----
(***************************************************************************)
(* Senechal Health MCP server (senechal_mcp_server.py): the tools, the     *)
(* resource handlers and the prompts, the helper make_api_request, the     *)
(* process-wide ServerStats counters and the start-up configuration check. *)
(*                                                                         *)
(* Python values are encoded uniformly as records                          *)
(*   [kind, num, str, keys, items]                                         *)
(* so that a dict, a list, a str, an int, None and a function object can   *)
(* be compared with each other.  A dict keeps its insertion order: keys[i] *)
(* is the i-th key inserted and items[i] its value.                        *)
(*                                                                         *)
(* An HTTP body is a sequence of lexemes [tt, s, n]; response.text writes  *)
(* the lexemes out and response.json() is a recursive-descent parse.       *)
(***************************************************************************)
EXTENDS Integers, Sequences, FiniteSets, TLC

VARIABLES
    env,      \* the process environment read by os.getenv at import time
    phase,    \* "starting" | "running" | "failed": module-level start-up
    stats,    \* the ServerStats instance: api_calls, resource_requests, tool_calls, errors
    inv,      \* inv[p]: the invocation in slot p (one coroutine of the event loop)
    world     \* what callers and the upstream have seen: handler invocations
              \* started, GETs put on the wire, GETs that failed

vars == <<env, phase, stats, inv, world>>

----------------------------------------------------------------------------
(* Bounds *)

\* number of coroutine slots that may be in flight at once
MaxInv == 2
\* cap on tool_calls + resource_requests (the counters are unbounded in the code)
MaxCalls == 2
\* longest `types` list a caller passes to a tool
MaxTypesLen == 2
\* largest number of entries in a resource's query_params mapping
MaxQueryParams == 2

Procs == 1..MaxInv

----------------------------------------------------------------------------
(* Python values *)

PyVal(kind, num, str, keys, items) ==
    [kind |-> kind, num |-> num, str |-> str, keys |-> keys, items |-> items]

PyNone == PyVal("NoneType", 0, "", <<>>, <<>>)
PyInt(n) == PyVal("int", n, "", <<>>, <<>>)
PyStr(s) == PyVal("str", 0, s, <<>>, <<>>)
PyList(items) == PyVal("list", 0, "", <<>>, items)
PyDict(keys, items) == PyVal("dict", 0, "", keys, items)
PyFunction(name) == PyVal("function", 0, name, <<>>, <<>>)
EmptyDict == PyDict(<<>>, <<>>)

\* `k in d`
DictHas(d, k) == d.kind = "dict" /\ \E i \in 1..Len(d.keys) : d.keys[i] = k

DictIndex(d, k) == CHOOSE i \in 1..Len(d.keys) : d.keys[i] = k

\* d[k]
DictGet(d, k) == d.items[DictIndex(d, k)]

\* d[k] = v : a new key is appended, an existing key keeps its position
DictSet(d, k, v) ==
    IF DictHas(d, k)
    THEN [d EXCEPT !.items[DictIndex(d, k)] = v]
    ELSE [d EXCEPT !.keys = Append(@, k), !.items = Append(@, v)]

\* bool(v) as used by `if types:` and `if not API_KEY:`
Truthy(v) ==
    CASE v.kind = "NoneType" -> FALSE
      [] v.kind = "int" -> v.num # 0
      [] v.kind = "str" -> v.str # ""
      [] v.kind = "list" -> v.items # <<>>
      [] v.kind = "dict" -> v.keys # <<>>
      [] OTHER -> TRUE

\* str(v) for the values that are formatted in the code: int and str
Str(v) == IF v.kind = "int" THEN ToString(v.num) ELSE v.str

RECURSIVE JoinStr(_, _)
\* sep.join(strs) for a sequence of strings
JoinStr(sep, strs) ==
    IF strs = <<>> THEN ""
    ELSE IF Len(strs) = 1 THEN strs[1]
    ELSE strs[1] \o sep \o JoinStr(sep, Tail(strs))

\* ','.join(map(str, types))
JoinTypes(types) == JoinStr(",", [i \in 1..Len(types.items) |-> Str(types.items[i])])

----------------------------------------------------------------------------
(* HTTP bodies and response.json() *)

Tok(tt, s, n) == [tt |-> tt, s |-> s, n |-> n]
P(ch) == Tok(ch, "", 0)
S(str) == Tok("str", str, 0)
N(k) == Tok("num", "", k)
W(word) == Tok("word", word, 0)

ParseOk(val, rest) == [ok |-> TRUE, val |-> val, rest |-> rest]
ParseFail == [ok |-> FALSE, val |-> PyNone, rest |-> <<>>]

RECURSIVE ParseValue(_), ParseItems(_, _), ParseMembers(_, _)

\* one JSON value at the head of toks
ParseValue(toks) ==
    IF toks = <<>> THEN ParseFail
    ELSE LET h == Head(toks)
             r == Tail(toks)
         IN CASE h.tt = "num" -> ParseOk(PyInt(h.n), r)
              [] h.tt = "str" -> ParseOk(PyStr(h.s), r)
              [] h.tt = "null" -> ParseOk(PyNone, r)
              [] h.tt = "[" ->
                    IF r # <<>> /\ Head(r).tt = "]"
                    THEN ParseOk(PyList(<<>>), Tail(r))
                    ELSE ParseItems(r, <<>>)
              [] h.tt = "{" ->
                    IF r # <<>> /\ Head(r).tt = "}"
                    THEN ParseOk(EmptyDict, Tail(r))
                    ELSE ParseMembers(r, EmptyDict)
              [] OTHER -> ParseFail

\* value ("," value)* "]"
ParseItems(toks, acc) ==
    LET v == ParseValue(toks)
    IN IF ~v.ok \/ v.rest = <<>> THEN ParseFail
       ELSE IF Head(v.rest).tt = "," THEN ParseItems(Tail(v.rest), Append(acc, v.val))
       ELSE IF Head(v.rest).tt = "]" THEN ParseOk(PyList(Append(acc, v.val)), Tail(v.rest))
       ELSE ParseFail

\* string ":" value ("," string ":" value)* "}" ; a repeated key keeps the last value
ParseMembers(toks, acc) ==
    IF Len(toks) < 2 \/ toks[1].tt # "str" \/ toks[2].tt # ":" THEN ParseFail
    ELSE LET v == ParseValue(Tail(Tail(toks)))
             d == DictSet(acc, toks[1].s, v.val)
         IN IF ~v.ok \/ v.rest = <<>> THEN ParseFail
            ELSE IF Head(v.rest).tt = "," THEN ParseMembers(Tail(v.rest), d)
            ELSE IF Head(v.rest).tt = "}" THEN ParseOk(d, Tail(v.rest))
            ELSE ParseFail

\* response.json(): the body must be exactly one JSON value
JsonDecode(body) ==
    LET v == ParseValue(body)
    IN IF v.ok /\ v.rest = <<>> THEN v ELSE ParseFail

\* how a lexeme is written in the body
Spelling(tok) ==
    CASE tok.tt = "str" -> "\"" \o tok.s \o "\""
      [] tok.tt = "num" -> ToString(tok.n)
      [] tok.tt = "word" -> tok.s
      [] OTHER -> tok.tt

\* response.text: the body as a str, nothing parsed
ResponseText(body) == PyStr(JoinStr("", [i \in 1..Len(body) |-> Spelling(body[i])]))

----------------------------------------------------------------------------
(* Start-up configuration (module level) *)

\* os.getenv("SENECHAL_API_BASE_URL"), os.getenv("SENECHAL_API_KEY")
API_BASE_URL == env.SENECHAL_API_BASE_URL
API_KEY == env.SENECHAL_API_KEY

\* mutant: only an unset variable is refused, an empty one is accepted
ConfigOk_NotNone == API_BASE_URL # PyNone /\ API_KEY # PyNone

\* the two `if not ...: raise ValueError(...)` checks
ConfigOk == Truthy(API_BASE_URL) /\ Truthy(API_KEY)

----------------------------------------------------------------------------
(* make_api_request *)

NoRequest == [method |-> "", url |-> "", headers |-> EmptyDict, params |-> PyNone]

\* mutant: the request is sent without the key header
ClientGet_NoKey(endpoint, params) ==
    [method |-> "GET",
     url |-> Str(API_BASE_URL) \o "/" \o endpoint,
     headers |-> EmptyDict,
     params |-> params]

\* client.get(f"{API_BASE_URL}/{endpoint}", headers=headers, params=params)
ClientGet(endpoint, params) ==
    [method |-> "GET",
     url |-> Str(API_BASE_URL) \o "/" \o endpoint,
     headers |-> PyDict(<<"X-API-Key">>, <<API_KEY>>),
     params |-> params]

NoOutcome == [transport |-> "", status |-> 0, body |-> <<>>]

Returned(value) == [raised |-> FALSE, value |-> value, exc |-> ""]
Raised(msg) == [raised |-> TRUE, value |-> PyNone, exc |-> msg]

\* response.raise_for_status() passes
IsSuccess(status) == 200 <= status /\ status <= 299

\* str(e) of the HTTPStatusError that response.raise_for_status() raises
StatusError(status) ==
    (IF status >= 500 THEN "Server error '"
     ELSE IF status >= 400 THEN "Client error '"
     ELSE IF status >= 300 THEN "Redirect response '"
     ELSE "Informational response '") \o ToString(status) \o "' for url"

\* mutant: expect_json is ignored and the text is returned
ApiResult_AlwaysText(outcome, expect_json) ==
    IF outcome.transport # "ok"
    THEN Raised(outcome.transport)
    ELSE IF ~IsSuccess(outcome.status)
    THEN Raised(StatusError(outcome.status))
    ELSE Returned(ResponseText(outcome.body))

\* mutant: a body that does not decode is handed back as text
ApiResult_LenientJson(outcome, expect_json) ==
    IF outcome.transport # "ok"
    THEN Raised(outcome.transport)
    ELSE IF ~IsSuccess(outcome.status)
    THEN Raised(StatusError(outcome.status))
    ELSE IF expect_json
    THEN LET d == JsonDecode(outcome.body)
         IN IF d.ok THEN Returned(d.val) ELSE Returned(ResponseText(outcome.body))
    ELSE Returned(ResponseText(outcome.body))

\* the try block of make_api_request once the upstream has answered (or the
\* transport has failed); the except clause re-raises
ApiResult(outcome, expect_json) ==
    IF outcome.transport # "ok"
    THEN Raised(outcome.transport)
    ELSE IF ~IsSuccess(outcome.status)
    THEN Raised(StatusError(outcome.status))
    ELSE IF expect_json
    THEN LET d == JsonDecode(outcome.body)
         IN IF d.ok THEN Returned(d.val) ELSE Raised("Expecting value")
    ELSE Returned(ResponseText(outcome.body))

----------------------------------------------------------------------------
(* The handlers.  X_call is the part of handler X up to its call of         *)
(* make_api_request: the endpoint, the params dict and expect_json it       *)
(* passes.  X_except is the value its except clause returns for str(e) = e. *)

\* a keyword argument the caller may omit, with the signature's default
Arg(a, name, default) == IF DictHas(a, name) THEN DictGet(a, name) ELSE default

ApiCall(endpoint, params, expect_json) ==
    [endpoint |-> endpoint, params |-> params, expect_json |-> expect_json]

\* mutant: the fallback dict lacks the message
Envelope_NoMessage(e, message) ==
    PyDict(<<"error">>, <<PyStr("API request failed: " \o e)>>)

\* mutant: the fallback dict lacks the error detail
Envelope_NoError(e, message) ==
    PyDict(<<"message">>, <<PyStr(message)>>)

\* the fallback dict of the JSON handlers
Envelope(e, message) ==
    PyDict(<<"error", "message">>, <<PyStr("API request failed: " \o e), PyStr(message)>>)

CheckKey == " Please check your API key and connection."

SummaryMessage(period) ==
    "Unable to retrieve health summary data for period '" \o period \o "'." \o CheckKey

ProfileFallback ==
    PyStr("# Error\n\nUnable to retrieve health profile data." \o CheckKey)

\* mutant: the period is left out of the endpoint
get_health_summary_impl_call_NoPeriod(period, q) ==
    LET p0 == EmptyDict
        p1 == IF DictHas(q, "metrics") THEN DictSet(p0, "metrics", DictGet(q, "metrics")) ELSE p0
        p2 == IF DictHas(q, "span") THEN DictSet(p1, "span", DictGet(q, "span")) ELSE p1
        p3 == IF DictHas(q, "offset") THEN DictSet(p2, "offset", DictGet(q, "offset")) ELSE p2
    IN ApiCall("health/summary", p3, TRUE)

\* resource senechal://health/summary/{period}: impl(resource_uri, query_params)
get_health_summary_impl_call(period, q) ==
    LET p0 == EmptyDict
        p1 == IF DictHas(q, "metrics") THEN DictSet(p0, "metrics", DictGet(q, "metrics")) ELSE p0
        p2 == IF DictHas(q, "span") THEN DictSet(p1, "span", DictGet(q, "span")) ELSE p1
        p3 == IF DictHas(q, "offset") THEN DictSet(p2, "offset", DictGet(q, "offset")) ELSE p2
    IN ApiCall("health/summary/" \o period, p3, TRUE)

get_health_summary_impl_except(period, q, e) == Envelope(e, SummaryMessage(period))

\* resource senechal://health/profile
get_health_profile_impl_call(q) == ApiCall("health/profile", PyNone, FALSE)

get_health_profile_impl_except(q, e) == ProfileFallback

\* resource senechal://health/current
get_current_measurements_impl_call(q) ==
    LET p0 == EmptyDict
        p1 == IF DictHas(q, "types") THEN DictSet(p0, "types", DictGet(q, "types")) ELSE p0
    IN ApiCall("health/current", p1, TRUE)

get_current_measurements_impl_except(q, e) ==
    Envelope(e, "Unable to retrieve current health measurements." \o CheckKey)

\* mutant: the whole query_params mapping is forwarded
get_health_trends_impl_call_All(q) == ApiCall("health/trends", q, TRUE)

\* resource senechal://health/trends
get_health_trends_impl_call(q) ==
    LET p0 == EmptyDict
        p1 == IF DictHas(q, "days") THEN DictSet(p0, "days", DictGet(q, "days")) ELSE p0
        p2 == IF DictHas(q, "types") THEN DictSet(p1, "types", DictGet(q, "types")) ELSE p1
        p3 == IF DictHas(q, "interval") THEN DictSet(p2, "interval", DictGet(q, "interval")) ELSE p2
    IN ApiCall("health/trends", p3, TRUE)

get_health_trends_impl_except(q, e) ==
    Envelope(e, "Unable to retrieve health trend data." \o CheckKey)

\* resource senechal://health/stats
get_health_stats_impl_call(q) ==
    LET p0 == EmptyDict
        p1 == IF DictHas(q, "days") THEN DictSet(p0, "days", DictGet(q, "days")) ELSE p0
        p2 == IF DictHas(q, "types") THEN DictSet(p1, "types", DictGet(q, "types")) ELSE p1
    IN ApiCall("health/stats", p2, TRUE)

get_health_stats_impl_except(q, e) ==
    Envelope(e, "Unable to retrieve health statistics data." \o CheckKey)

\* what the function registered by @mcp.resource returns when it is called:
\* each of the five defines the coroutine function impl and returns it
ResourceFunction(cap, period) == PyFunction("impl")

\* mutant: the except clause returns an empty summary instead of the error
fetch_health_summary_except_Empty(period, a, e) ==
    PyDict(<<"summaries">>, <<PyList(<<>>)>>)

\* mutant: the tool sends only what the caller gave, as the resource does
fetch_health_summary_call_OnlyGiven(period, a) ==
    LET p0 == EmptyDict
        p1 == IF DictHas(a, "metrics") THEN DictSet(p0, "metrics", DictGet(a, "metrics")) ELSE p0
        p2 == IF DictHas(a, "span") THEN DictSet(p1, "span", DictGet(a, "span")) ELSE p1
        p3 == IF DictHas(a, "offset") THEN DictSet(p2, "offset", DictGet(a, "offset")) ELSE p2
    IN ApiCall("health/summary/" \o period, p3, TRUE)

\* tool fetch_health_summary(period, metrics="all", span=1, offset=0)
fetch_health_summary_call(period, a) ==
    LET metrics == Arg(a, "metrics", PyStr("all"))
        span == Arg(a, "span", PyInt(1))
        offset == Arg(a, "offset", PyInt(0))
    IN ApiCall("health/summary/" \o period,
               PyDict(<<"metrics", "span", "offset">>, <<metrics, span, offset>>),
               TRUE)

fetch_health_summary_except(period, a, e) == Envelope(e, SummaryMessage(period))

\* mutant: expect_json=False is forgotten
fetch_health_profile_call_Json(a) == ApiCall("health/profile", PyNone, TRUE)

\* tool fetch_health_profile()
fetch_health_profile_call(a) == ApiCall("health/profile", PyNone, FALSE)

fetch_health_profile_except(a, e) == ProfileFallback

\* mutant: `if types is not None` in place of `if types`
fetch_current_health_call_NotNone(a) ==
    LET types == Arg(a, "types", PyNone)
        p0 == EmptyDict
        p1 == IF types # PyNone THEN DictSet(p0, "types", PyStr(JoinTypes(types))) ELSE p0
    IN ApiCall("health/current", p1, TRUE)

\* tool fetch_current_health(types=None)
fetch_current_health_call(a) ==
    LET types == Arg(a, "types", PyNone)
        p0 == EmptyDict
        p1 == IF Truthy(types) THEN DictSet(p0, "types", PyStr(JoinTypes(types))) ELSE p0
    IN ApiCall("health/current", p1, TRUE)

fetch_current_health_except(a, e) ==
    Envelope(e, "Unable to retrieve current health measurements." \o CheckKey)

\* mutant: interval is not forwarded
fetch_health_trends_call_NoInterval(a) ==
    LET days == Arg(a, "days", PyInt(30))
        types == Arg(a, "types", PyNone)
        p0 == PyDict(<<"days">>, <<days>>)
        p1 == IF Truthy(types) THEN DictSet(p0, "types", PyStr(JoinTypes(types))) ELSE p0
    IN ApiCall("health/trends", p1, TRUE)

\* tool fetch_health_trends(days=30, types=None, interval="day")
fetch_health_trends_call(a) ==
    LET days == Arg(a, "days", PyInt(30))
        types == Arg(a, "types", PyNone)
        interval == Arg(a, "interval", PyStr("day"))
        p0 == PyDict(<<"days", "interval">>, <<days, interval>>)
        p1 == IF Truthy(types) THEN DictSet(p0, "types", PyStr(JoinTypes(types))) ELSE p0
    IN ApiCall("health/trends", p1, TRUE)

fetch_health_trends_except(a, e) ==
    Envelope(e, "Unable to retrieve health trend data for the past "
                \o Str(Arg(a, "days", PyInt(30))) \o " days." \o CheckKey)

\* mutant: types is sent even when the caller gave none
fetch_health_stats_call_AlwaysTypes(a) ==
    LET days == Arg(a, "days", PyInt(30))
        types == Arg(a, "types", PyNone)
        p0 == PyDict(<<"days">>, <<days>>)
        p1 == DictSet(p0, "types",
                      PyStr(IF Truthy(types) THEN JoinTypes(types) ELSE ""))
    IN ApiCall("health/stats", p1, TRUE)

\* tool fetch_health_stats(days=30, types=None)
fetch_health_stats_call(a) ==
    LET days == Arg(a, "days", PyInt(30))
        types == Arg(a, "types", PyNone)
        p0 == PyDict(<<"days">>, <<days>>)
        p1 == IF Truthy(types) THEN DictSet(p0, "types", PyStr(JoinTypes(types))) ELSE p0
    IN ApiCall("health/stats", p1, TRUE)

fetch_health_stats_except(a, e) ==
    Envelope(e, "Unable to retrieve health statistics data for the past "
                \o Str(Arg(a, "days", PyInt(30))) \o " days." \o CheckKey)

\* prompts: a fixed text each
analyze_health_summary ==
    PyStr("Please analyze the following health summary data and provide insights: "
          \o "senechal://health/summary/day?span=7")

compare_health_trends ==
    PyStr("Please compare the following health trend data: "
          \o "senechal://health/trends?days=7&interval=day")

\* dispatch on the capability
ToolCall(cap, period, a) ==
    CASE cap = "summary" -> fetch_health_summary_call(period, a)
      [] cap = "profile" -> fetch_health_profile_call(a)
      [] cap = "current" -> fetch_current_health_call(a)
      [] cap = "trends" -> fetch_health_trends_call(a)
      [] cap = "stats" -> fetch_health_stats_call(a)

ToolExcept(cap, period, a, e) ==
    CASE cap = "summary" -> fetch_health_summary_except(period, a, e)
      [] cap = "profile" -> fetch_health_profile_except(a, e)
      [] cap = "current" -> fetch_current_health_except(a, e)
      [] cap = "trends" -> fetch_health_trends_except(a, e)
      [] cap = "stats" -> fetch_health_stats_except(a, e)

ImplCall(cap, period, q) ==
    CASE cap = "summary" -> get_health_summary_impl_call(period, q)
      [] cap = "profile" -> get_health_profile_impl_call(q)
      [] cap = "current" -> get_current_measurements_impl_call(q)
      [] cap = "trends" -> get_health_trends_impl_call(q)
      [] cap = "stats" -> get_health_stats_impl_call(q)

ImplExcept(cap, period, q, e) ==
    CASE cap = "summary" -> get_health_summary_impl_except(period, q, e)
      [] cap = "profile" -> get_health_profile_impl_except(q, e)
      [] cap = "current" -> get_current_measurements_impl_except(q, e)
      [] cap = "trends" -> get_health_trends_impl_except(q, e)
      [] cap = "stats" -> get_health_stats_impl_except(q, e)

HandlerExcept(kind, cap, period, a, e) ==
    IF kind = "tool" THEN ToolExcept(cap, period, a, e) ELSE ImplExcept(cap, period, a, e)

\* mutant: no except clause, the exception leaves the handler
TryExcept_Propagates(result, fallback) ==
    IF result.raised THEN Raised(result.exc) ELSE Returned(result.value)

\* mutant: once an error has been counted, failures are answered without detail
TryExcept_CircuitBreaker(result, fallback) ==
    IF result.raised
    THEN IF stats.errors >= 1
         THEN Returned(PyDict(<<"error">>, <<PyStr("circuit open")>>))
         ELSE Returned(fallback)
    ELSE Returned(result.value)

\* try: data = await make_api_request(...); return data
\* except Exception as e: return <fallback>
TryExcept(result, fallback) ==
    IF result.raised THEN Returned(fallback) ELSE Returned(result.value)

----------------------------------------------------------------------------
(* Inputs: what callers pass and what the upstream answers *)

Range(seq) == {seq[i] : i \in 1..Len(seq)}

\* the dict with the keys of nameSeq that are in DOMAIN f, in nameSeq order
MkDict(nameSeq, f) ==
    LET ks == SelectSeq(nameSeq, LAMBDA n : n \in DOMAIN f)
    IN PyDict(ks, [i \in 1..Len(ks) |-> f[ks[i]]])

\* every dict over at most maxLen of the names, each name n with a value of values[n]
ArgDicts(nameSeq, values, maxLen) ==
    UNION {{MkDict(nameSeq, f) : f \in {g \in [sub -> UNION {values[n] : n \in sub}] :
                                          \A n \in sub : g[n] \in values[n]}} :
           sub \in {x \in SUBSET Range(nameSeq) : Cardinality(x) <= maxLen}}

Periods == {"day", "week", "month", "year", "decade"}
SupportedPeriods == {"day", "week", "month", "year"}

TypeIds == {1, 2}

\* the lists a caller passes as `types`
TypeLists ==
    UNION {{PyList([i \in 1..n |-> PyInt(l[i])]) : l \in [1..n -> TypeIds]} : n \in 0..MaxTypesLen}

ToolArgValues ==
    [name \in {"metrics", "span", "offset", "days", "interval", "types"} |->
    CASE name = "metrics" -> {PyStr("sleep")}
      [] name = "span" -> {PyInt(2)}
      [] name = "offset" -> {PyInt(1)}
      [] name = "days" -> {PyInt(7), PyInt(30)}
      [] name = "interval" -> {PyStr("day"), PyStr("week")}
      [] name = "types" -> {PyNone} \cup TypeLists]

ToolInput(cap, period, args) == [cap |-> cap, period |-> period, args |-> args]

ToolInputs ==
    {ToolInput("summary", pd, a) : pd \in Periods,
                                   a \in ArgDicts(<<"metrics", "span", "offset">>, ToolArgValues, 3)}
    \cup {ToolInput("profile", "", EmptyDict)}
    \cup {ToolInput("current", "", a) : a \in ArgDicts(<<"types">>, ToolArgValues, 1)}
    \cup {ToolInput("trends", "", a) :
              a \in ArgDicts(<<"days", "types", "interval">>, ToolArgValues, 3)}
    \cup {ToolInput("stats", "", a) : a \in ArgDicts(<<"days", "types">>, ToolArgValues, 2)}

\* the names a caller may put in a resource's query string; "limit" is on no allow-list
QueryNames == <<"metrics", "span", "offset", "days", "types", "interval", "limit">>

QueryValues ==
    [name \in Range(QueryNames) |->
    CASE name = "metrics" -> {PyStr("sleep")}
      [] name = "span" -> {PyStr("7")}
      [] name = "offset" -> {PyStr("1")}
      [] name = "days" -> {PyStr("30")}
      [] name = "types" -> {PyStr("1,2,3")}
      [] name = "interval" -> {PyStr("day")}
      [] name = "limit" -> {PyStr("5")}]

QueryDicts == ArgDicts(QueryNames, QueryValues, MaxQueryParams)

Caps == {"summary", "profile", "current", "trends", "stats"}

ResourceUris ==
    {ToolInput("summary", pd, EmptyDict) : pd \in Periods}
    \cup {ToolInput(c, "", EmptyDict) : c \in Caps \ {"summary"}}

ImplInputs == {ToolInput(u.cap, u.period, q) : u \in ResourceUris, q \in QueryDicts}

PromptNames == {"analyze_health_summary", "compare_health_trends"}

\* upstream bodies
BodySummaries ==
    <<P("{"), S("summaries"), P(":"), P("["), P("{"), S("steps"), P(":"), N(7), P("}"), P("]"),
      P(","), S("period_type"), P(":"), S("day"), P("}")>>
BodyErrorField == <<P("{"), S("error"), P(":"), S("no data"), P("}")>>
BodyEmptyObject == <<P("{"), P("}")>>
BodyArray == <<P("["), N(1), P(","), N(2), P("]")>>
BodyScalar == <<N(7)>>
BodyMarkdown == <<W("# Health Profile")>>
BodyTruncated == <<P("{"), S("summaries"), P(":"), P("[")>>
BodyEmpty == <<>>

Bodies ==
    {BodySummaries, BodyErrorField, BodyEmptyObject, BodyArray, BodyScalar, BodyMarkdown,
     BodyTruncated, BodyEmpty}

Outcome(transport, status, body) == [transport |-> transport, status |-> status, body |-> body]

\* what can come back from client.get: a transport failure or a response
Outcomes ==
    {Outcome("ConnectError", 0, <<>>), Outcome("ReadTimeout", 0, <<>>)}
    \cup {Outcome("ok", 200, b) : b \in Bodies}
    \cup {Outcome("ok", 204, BodyEmpty), Outcome("ok", 404, BodyErrorField),
          Outcome("ok", 500, BodyMarkdown)}

EnvChoices ==
    [SENECHAL_API_BASE_URL : {PyNone, PyStr(""), PyStr("https://api.example")},
     SENECHAL_API_KEY : {PyNone, PyStr(""), PyStr("secret-key")}]

----------------------------------------------------------------------------
(* State *)

Idle ==
    [pc |-> "idle", kind |-> "", cap |-> "", period |-> "", args |-> EmptyDict,
     expect_json |-> FALSE, request |-> NoRequest, gets |-> 0, outcome |-> NoOutcome,
     api_raised |-> FALSE, raised |-> FALSE, ret |-> PyNone]

\* ServerStats.__init__
ServerStats == [api_calls |-> 0, resource_requests |-> 0, tool_calls |-> 0, errors |-> 0]

\* the coroutines suspended in `await client.get(...)`
InFlight == {q \in Procs : inv[q].pc = "awaiting"}

\* mutant: a tool call is recorded in the resource counter
CountToolCall_AsResource(s) == [s EXCEPT !.resource_requests = @ + 1]

\* stats.tool_calls += 1
CountToolCall(s) == [s EXCEPT !.tool_calls = @ + 1]

\* mutant: `= 1` in place of `+= 1`
CountResourceRequest_Reset(s) == [s EXCEPT !.resource_requests = 1]

\* stats.resource_requests += 1
CountResourceRequest(s) == [s EXCEPT !.resource_requests = @ + 1]

\* mutant: the increment is lost while another call is in flight
CountApiCall_Lost(s) == IF InFlight # {} THEN s ELSE [s EXCEPT !.api_calls = @ + 1]

\* stats.api_calls += 1
CountApiCall(s) == [s EXCEPT !.api_calls = @ + 1]

\* mutant: a failure is counted twice
CountError_Double(s) == [s EXCEPT !.errors = @ + 2]

\* stats.errors += 1
CountError(s) == [s EXCEPT !.errors = @ + 1]

\* nothing invoked, nothing on the wire
NoTraffic == [invoked |-> 0, gets |-> 0, failed |-> 0, overlapped |-> FALSE]

\* the GET did not yield what the caller of make_api_request asked for: the
\* transport failed, the status is not 2xx, or JSON was expected and the body is none
UpstreamFailed(o, expect_json) ==
    \/ o.transport # "ok"
    \/ ~IsSuccess(o.status)
    \/ expect_json /\ ~JsonDecode(o.body).ok

Init ==
    /\ env \in EnvChoices
    /\ phase = "starting"
    /\ stats = ServerStats
    /\ inv = [p \in Procs |-> Idle]
    /\ world = NoTraffic

\* module level: read the configuration, raise ValueError if either is missing
Startup ==
    /\ phase = "starting"
    /\ phase' = IF ConfigOk THEN "running" ELSE "failed"
    /\ UNCHANGED <<env, stats, inv, world>>

CanInvoke(p) ==
    /\ phase = "running"
    /\ inv[p].pc = "idle"

Budget == world.invoked < MaxCalls

\* mutant: responses are awaited one slot after the other
Resumable_Serial(p) ==
    inv[p].pc = "awaiting" /\ \A q \in Procs : q < p => inv[q].pc # "awaiting"

\* the coroutine in slot p is suspended in `await client.get(...)` and resumes
\* as soon as its own response (or transport failure) is there
Resumable(p) == inv[p].pc = "awaiting"

\* a handler runs up to `await client.get(...)` inside make_api_request
Awaiting(kind, in, c) ==
    [Idle EXCEPT !.pc = "awaiting", !.kind = kind, !.cap = in.cap, !.period = in.period,
                 !.args = in.args, !.expect_json = c.expect_json,
                 !.request = ClientGet(c.endpoint, c.params), !.gets = 1]

\* a tool is called: tool_calls += 1, then make_api_request: api_calls += 1, GET
InvokeTool(p, in) ==
    /\ CanInvoke(p) /\ Budget
    /\ stats' = CountApiCall(CountToolCall(stats))
    /\ inv' = [inv EXCEPT ![p] = Awaiting("tool", in, ToolCall(in.cap, in.period, in.args))]
    /\ world' = [world EXCEPT !.invoked = @ + 1, !.gets = @ + 1,
                              !.overlapped = @ \/ InFlight # {}]
    /\ UNCHANGED <<env, phase>>

\* impl(resource_uri, query_params) of a resource is called
InvokeImpl(p, in) ==
    /\ CanInvoke(p) /\ Budget
    /\ stats' = CountApiCall(CountResourceRequest(stats))
    /\ inv' = [inv EXCEPT ![p] = Awaiting("impl", in, ImplCall(in.cap, in.period, in.args))]
    /\ world' = [world EXCEPT !.invoked = @ + 1, !.gets = @ + 1,
                              !.overlapped = @ \/ InFlight # {}]
    /\ UNCHANGED <<env, phase>>

\* the function registered for a resource URI is called (a resource read)
ReadResource(p, u) ==
    /\ CanInvoke(p)
    /\ inv' = [inv EXCEPT ![p] = [Idle EXCEPT !.pc = "done", !.kind = "resource",
                                              !.cap = u.cap, !.period = u.period,
                                              !.ret = ResourceFunction(u.cap, u.period)]]
    /\ UNCHANGED <<env, phase, stats, world>>

\* mutant: the text carries the number of API calls made so far
PromptText_Counted(name) ==
    PyStr((IF name = "analyze_health_summary"
           THEN analyze_health_summary.str ELSE compare_health_trends.str)
          \o " (" \o ToString(stats.api_calls) \o " calls)")

PromptText(name) ==
    IF name = "analyze_health_summary" THEN analyze_health_summary ELSE compare_health_trends

\* a prompt is requested
GetPrompt(p, name) ==
    /\ CanInvoke(p)
    /\ inv' = [inv EXCEPT ![p] = [Idle EXCEPT !.pc = "done", !.kind = "prompt", !.cap = name,
                                              !.ret = PromptText(name)]]
    /\ UNCHANGED <<env, phase, stats, world>>

\* the awaited GET completes with outcome o: the rest of make_api_request
\* (errors += 1 and re-raise on any exception) and of the handler's try/except
Respond(p, o) ==
    /\ Resumable(p)
    /\ LET i == inv[p]
           r == ApiResult(o, i.expect_json)
           h == TryExcept(r, HandlerExcept(i.kind, i.cap, i.period, i.args, r.exc))
       IN /\ stats' = IF r.raised THEN CountError(stats) ELSE stats
          /\ world' = [world EXCEPT !.failed = IF UpstreamFailed(o, i.expect_json)
                                                THEN @ + 1 ELSE @]
          /\ inv' = [inv EXCEPT ![p] = [i EXCEPT !.pc = "done", !.outcome = o,
                                                 !.api_raised = r.raised,
                                                 !.raised = h.raised, !.ret = h.value]]
    /\ UNCHANGED <<env, phase>>

\* the caller has its value; the slot is free again
Return(p) ==
    /\ inv[p].pc = "done"
    /\ inv' = [inv EXCEPT ![p] = Idle]
    /\ UNCHANGED <<env, phase, stats, world>>

\* one invocation at a time
Next ==
    \/ Startup
    \/ \E in \in ToolInputs : InvokeTool(1, in)
    \/ \E in \in ImplInputs : InvokeImpl(1, in)
    \/ \E u \in ResourceUris : ReadResource(1, u)
    \/ \E n \in PromptNames : GetPrompt(1, n)
    \/ \E o \in Outcomes : Respond(1, o)
    \/ Return(1)

Spec == Init /\ [][Next]_vars

\* what the concurrent invocations are called with and answered
ConcToolInputs ==
    {ToolInput("profile", "", EmptyDict),
     ToolInput("trends", "", PyDict(<<"days">>, <<PyInt(7)>>))}

ConcImplInputs == {ToolInput("stats", "", PyDict(<<"days">>, <<PyStr("30")>>))}

ConcOutcomes ==
    {Outcome("ConnectError", 0, <<>>), Outcome("ok", 500, BodyMarkdown),
     Outcome("ok", 200, BodySummaries), Outcome("ok", 200, BodyMarkdown)}

\* the handlers are coroutines of one event loop: any number of them may be
\* suspended in their await at once, and each step between awaits is atomic
NextConc ==
    \/ Startup
    \/ \E p \in Procs :
          \/ \E in \in ConcToolInputs : InvokeTool(p, in)
          \/ \E in \in ConcImplInputs : InvokeImpl(p, in)
          \/ \E o \in ConcOutcomes : Respond(p, o)
          \/ Return(p)

SpecConc == Init /\ [][NextConc]_vars

\* the slot whose upstream never answers
HungSlot == 1

FairToolInputs == {ToolInput("profile", "", EmptyDict), ToolInput("current", "", EmptyDict)}
FairImplInputs == {ToolInput("stats", "", EmptyDict)}
FairOutcomes ==
    {Outcome("ReadTimeout", 0, <<>>), Outcome("ok", 500, BodyMarkdown),
     Outcome("ok", 200, BodySummaries)}

\* as NextConc, but the GET of the invocation in HungSlot is never answered
NextHang ==
    \/ Startup
    \/ \E p \in Procs :
          \/ \E in \in FairToolInputs : InvokeTool(p, in)
          \/ \E in \in FairImplInputs : InvokeImpl(p, in)
          \/ p # HungSlot /\ \E o \in FairOutcomes : Respond(p, o)
          \/ Return(p)

\* every other upstream call is answered or fails, and the event loop resumes
\* the coroutine that waits for it
SpecHang ==
    /\ Init
    /\ [][NextHang]_vars
    /\ \A p \in Procs \ {HungSlot} : WF_vars(\E o \in FairOutcomes : Respond(p, o))

----------------------------------------------------------------------------
(* The summary tool and the summary resource handler side by side *)

SummaryNames == <<"metrics", "span", "offset">>

PairPeriods == {"week", "decade"}

\* query-string values, the spellings of the tool's defaults among them
PairQueryValues ==
    [name \in Range(SummaryNames) |->
    CASE name = "metrics" -> {PyStr("all"), PyStr("sleep")}
      [] name = "span" -> {PyStr("1"), PyStr("2")}
      [] name = "offset" -> {PyStr("0"), PyStr("1")}]

PairToolInputs ==
    {ToolInput("summary", pd, a) : pd \in PairPeriods,
                                   a \in ArgDicts(SummaryNames, ToolArgValues, 3)}

PairImplInputs ==
    {ToolInput("summary", pd, q) : pd \in PairPeriods,
                                   q \in ArgDicts(SummaryNames, PairQueryValues, 3)}

PairOutcomes == {Outcome("ok", 200, BodySummaries), Outcome("ok", 500, BodyMarkdown)}

\* the tool runs in slot 1, the resource handler in slot 2
NextPair ==
    \/ Startup
    \/ \E in \in PairToolInputs : InvokeTool(1, in)
    \/ \E in \in PairImplInputs : InvokeImpl(2, in)
    \/ \E p \in Procs : \E o \in PairOutcomes : Respond(p, o)
    \/ \E p \in Procs : Return(p)

SpecPair == Init /\ [][NextPair]_vars

\* the query string client.get sends for params: str() of every value, in
\* the order of the dict
QueryString(params) ==
    IF params.kind = "dict"
    THEN [i \in 1..Len(params.keys) |-> <<params.keys[i], Str(params.items[i])>>]
    ELSE <<>>

\* what goes on the wire for a request
WireRequest(r) == <<r.method, r.url, r.headers, QueryString(r.params)>>

----------------------------------------------------------------------------
(* Properties *)

Handlers == {"tool", "impl"}
Called(p) == inv[p].kind \in Handlers /\ inv[p].pc \in {"awaiting", "done"}
Finished(p) == inv[p].kind \in Handlers /\ inv[p].pc = "done"
JsonMode(p) == inv[p].cap # "profile"
Answered2xx(p) == inv[p].outcome.transport = "ok" /\ IsSuccess(inv[p].outcome.status)

HasField(v, k) == DictHas(v, k)

IsErrorEnvelope(v) ==
    /\ v.kind = "dict"
    /\ HasField(v, "error")
    /\ HasField(v, "message")
    /\ DictGet(v, "message").kind = "str"
    /\ DictGet(v, "message").str # ""

HasSummariesList(v) == HasField(v, "summaries") /\ DictGet(v, "summaries").kind = "list"

\* C1: every tool and resource handler returns a value for every upstream outcome
\* (2xx, non-2xx, transport failure, undecodable body); no exception raised by
\* make_api_request leaves the handler.
C1_NoFaultPastBoundary ==
    \A p \in Procs :
        /\ inv[p].pc = "done" => ~inv[p].raised
        /\ (Finished(p) /\ inv[p].api_raised) => inv[p].ret.kind \in {"dict", "str"}

C1_Witness ==
    \E p \in Procs :
        /\ Finished(p) /\ inv[p].api_raised /\ ~inv[p].raised
        /\ inv[p].outcome = Outcome("ok", 200, BodyTruncated)

\* C2 as stated: whenever the upstream call fails, every tool and resource,
\* the profile capabilities included, returns a mapping with an `error` field
\* and a non-empty `message` field.
C2_Original ==
    \A p \in Procs : (Finished(p) /\ inv[p].api_raised) => IsErrorEnvelope(inv[p].ret)

\* C2 amended: whenever the upstream call fails, a JSON-mode capability returns
\* the Error Envelope (`error` and a non-empty `message`), and a profile
\* capability returns the fixed markdown text "# Error ...", a str with no field.
C2_FailureShape ==
    \A p \in Procs :
        (Finished(p) /\ inv[p].api_raised) =>
            IF JsonMode(p)
            THEN /\ IsErrorEnvelope(inv[p].ret)
                 /\ DictGet(inv[p].ret, "error").kind = "str"
                 /\ inv[p].ret.keys = <<"error", "message">>
            ELSE inv[p].ret = ProfileFallback /\ inv[p].ret.kind = "str"

C2_Witness ==
    \E p \in Procs :
        /\ Finished(p) /\ inv[p].api_raised /\ JsonMode(p)
        /\ inv[p].outcome.status = 500

\* C3 as stated: the returned value carries an `error` field if and only if the
\* upstream call of the invocation failed.
C3_Original ==
    \A p \in Procs : Finished(p) => (HasField(inv[p].ret, "error") <=> inv[p].api_raised)

\* C3 amended: for a JSON-mode capability the returned value carries an `error`
\* field if and only if the upstream call failed or the decoded upstream JSON
\* itself has an `error` member; the value a profile capability returns is a
\* str and never carries one, failed or not.
C3_ErrorField ==
    \A p \in Procs :
        Finished(p) =>
            IF JsonMode(p)
            THEN HasField(inv[p].ret, "error") <=>
                     \/ inv[p].api_raised
                     \/ HasField(JsonDecode(inv[p].outcome.body).val, "error")
            ELSE ~HasField(inv[p].ret, "error") /\ inv[p].ret.kind = "str"

C3_Witness ==
    \E p \in Procs :
        /\ Finished(p) /\ JsonMode(p) /\ ~inv[p].api_raised
        /\ inv[p].outcome.body = BodyErrorField
        /\ HasField(inv[p].ret, "error")

\* C4: every invocation of a registered tool or resource function issues
\* exactly one upstream GET before it returns.
C4_ExactlyOneGet ==
    \A p \in Procs :
        (inv[p].pc = "done" /\ inv[p].kind \in {"tool", "resource"}) => inv[p].gets = 1

\* C5: a JSON-mode capability whose upstream call succeeds with decodable JSON
\* returns the decoded value itself, whatever its shape.
C5_JsonPassThrough ==
    \A p \in Procs :
        (Finished(p) /\ JsonMode(p) /\ Answered2xx(p) /\ JsonDecode(inv[p].outcome.body).ok) =>
            /\ ~inv[p].api_raised
            /\ inv[p].ret = JsonDecode(inv[p].outcome.body).val
            /\ inv[p].outcome.body = BodyArray => inv[p].ret = PyList(<<PyInt(1), PyInt(2)>>)
            /\ inv[p].outcome.body = BodyScalar => inv[p].ret = PyInt(7)
            /\ inv[p].outcome.body = BodyEmptyObject => inv[p].ret = EmptyDict
            /\ inv[p].outcome.body = BodySummaries =>
                   inv[p].ret = PyDict(<<"summaries", "period_type">>,
                                       <<PyList(<<PyDict(<<"steps">>, <<PyInt(7)>>)>>),
                                         PyStr("day")>>)

C5_Witness ==
    \E p \in Procs :
        /\ Finished(p) /\ inv[p].kind = "impl" /\ inv[p].cap = "stats"
        /\ inv[p].outcome = Outcome("ok", 200, BodyArray)
        /\ inv[p].ret.kind = "list"

\* C6: a profile capability whose upstream call succeeds returns the literal
\* body; a body that is not valid JSON does not make the call fail.
C6_TextPassThrough ==
    \A p \in Procs :
        (Finished(p) /\ ~JsonMode(p) /\ Answered2xx(p)) =>
            /\ ~inv[p].api_raised
            /\ inv[p].ret = ResponseText(inv[p].outcome.body)
            /\ inv[p].outcome.body = BodyMarkdown => inv[p].ret = PyStr("# Health Profile")
            /\ inv[p].outcome.body = BodyTruncated => inv[p].ret = PyStr("{\"summaries\":[")

C6_Witness ==
    \E p \in Procs :
        /\ Finished(p) /\ ~JsonMode(p) /\ Answered2xx(p)
        /\ ~JsonDecode(inv[p].outcome.body).ok
        /\ inv[p].ret = PyStr("# Health Profile")

\* the allow-list of each resource, as the specification gives it
AllowList(cap) ==
    CASE cap = "summary" -> {"metrics", "span", "offset"}
      [] cap = "current" -> {"types"}
      [] cap = "trends" -> {"days", "types", "interval"}
      [] cap = "stats" -> {"days", "types"}
      [] cap = "profile" -> {}

\* C7: the query parameters a resource handler sends upstream are exactly the
\* caller's parameters whose names are on the resource's allow-list, values
\* unchanged; any other parameter is dropped and causes no error.
C7_AllowList ==
    \A p \in Procs :
        (Called(p) /\ inv[p].kind = "impl") =>
            LET q == inv[p].args
                ps == inv[p].request.params
                allow == AllowList(inv[p].cap)
            IN /\ inv[p].gets = 1 /\ ~inv[p].raised
               /\ IF allow = {}
                  THEN ps = PyNone
                  ELSE /\ ps.kind = "dict"
                       /\ Range(ps.keys) = Range(q.keys) \cap allow
                       /\ Len(ps.keys) = Cardinality(Range(ps.keys))
                       /\ \A k \in Range(ps.keys) : DictGet(ps, k) = DictGet(q, k)

C7_Witness ==
    \E p \in Procs :
        /\ Called(p) /\ inv[p].kind = "impl" /\ inv[p].cap = "trends"
        /\ Range(inv[p].args.keys) = {"days", "limit"}
        /\ inv[p].request.params = PyDict(<<"days">>, <<PyStr("30")>>)

TrendsToolWithTypes(p) ==
    /\ Called(p) /\ inv[p].kind = "tool" /\ inv[p].cap = "trends"
    /\ Arg(inv[p].args, "types", PyNone).kind = "list"
    /\ Arg(inv[p].args, "types", PyNone).items # <<>>

\* C8 as stated: the trends tool with days D, a non-empty types list and
\* interval I issues one GET to health/trends whose query parameters are, in
\* this order, days=D, types=t1,...,tn, interval=I.
C8_Original ==
    \A p \in Procs :
        TrendsToolWithTypes(p) =>
            LET a == inv[p].args
            IN /\ inv[p].gets = 1
               /\ inv[p].request.method = "GET"
               /\ inv[p].request.url = Str(API_BASE_URL) \o "/health/trends"
               /\ inv[p].request.params =
                      PyDict(<<"days", "types", "interval">>,
                             <<Arg(a, "days", PyInt(30)),
                               PyStr(JoinTypes(Arg(a, "types", PyNone))),
                               Arg(a, "interval", PyStr("day"))>>)

\* C8 amended: the trends tool with days D, a non-empty types list and interval
\* I issues one GET to health/trends whose query parameters are, in this order,
\* days=D, interval=I, types=t1,...,tn (the list joined by commas in list
\* order); for days=7, types=[1,2], interval=day they are days=7, interval=day,
\* types=1,2.
C8_TrendsRequest ==
    \A p \in Procs :
        TrendsToolWithTypes(p) =>
            LET a == inv[p].args
            IN /\ inv[p].gets = 1
               /\ inv[p].request.method = "GET"
               /\ inv[p].request.url = Str(API_BASE_URL) \o "/health/trends"
               /\ inv[p].request.params =
                      PyDict(<<"days", "interval", "types">>,
                             <<Arg(a, "days", PyInt(30)),
                               Arg(a, "interval", PyStr("day")),
                               PyStr(JoinTypes(Arg(a, "types", PyNone)))>>)
               /\ a = PyDict(<<"days", "types", "interval">>,
                             <<PyInt(7), PyList(<<PyInt(1), PyInt(2)>>), PyStr("day")>>)
                  => inv[p].request.params =
                         PyDict(<<"days", "interval", "types">>,
                                <<PyInt(7), PyStr("day"), PyStr("1,2")>>)
               /\ Arg(a, "types", PyNone) = PyList(<<PyInt(2), PyInt(1)>>)
                  => DictGet(inv[p].request.params, "types") = PyStr("2,1")

C8_Witness ==
    \E p \in Procs :
        /\ TrendsToolWithTypes(p)
        /\ inv[p].args = PyDict(<<"days", "types", "interval">>,
                                <<PyInt(7), PyList(<<PyInt(1), PyInt(2)>>), PyStr("day")>>)
        /\ DictGet(inv[p].request.params, "types") = PyStr("1,2")

\* C9: the stats tool with days=N and no types issues exactly one GET, to
\* health/stats, whose only query parameter is days=N; for N=30 it is days=30.
C9_StatsRequest ==
    \A p \in Procs :
        (/\ Called(p) /\ inv[p].kind = "tool" /\ inv[p].cap = "stats"
         /\ Arg(inv[p].args, "types", PyNone) = PyNone) =>
            /\ inv[p].gets = 1
            /\ inv[p].request.method = "GET"
            /\ inv[p].request.url = Str(API_BASE_URL) \o "/health/stats"
            /\ inv[p].request.params = PyDict(<<"days">>, <<Arg(inv[p].args, "days", PyInt(30))>>)
            /\ inv[p].args = PyDict(<<"days">>, <<PyInt(30)>>)
               => inv[p].request.params = PyDict(<<"days">>, <<PyInt(30)>>)

C9_Witness ==
    \E p \in Procs :
        /\ inv[p].pc = "done" /\ inv[p].kind = "tool" /\ inv[p].cap = "stats"
        /\ inv[p].args = PyDict(<<"days">>, <<PyInt(30)>>)
        /\ inv[p].request.params = PyDict(<<"days">>, <<PyInt(30)>>)

SummaryFinished(p) ==
    Finished(p) /\ inv[p].cap = "summary" /\ inv[p].period \in SupportedPeriods

\* C10 as stated: a summary invocation for a supported period returns either a
\* payload that contains a `summaries` list or the Error Envelope, and nothing
\* else.
C10_Original ==
    \A p \in Procs :
        SummaryFinished(p) =>
            /\ ~inv[p].raised
            /\ HasSummariesList(inv[p].ret) \/ IsErrorEnvelope(inv[p].ret)

\* C10 amended: a summary invocation for a supported period returns either the
\* decoded upstream JSON unchanged, which contains a `summaries` list whenever
\* the upstream's body does, or the Error Envelope; never an unhandled fault.
C10_SummaryOutcome ==
    \A p \in Procs :
        SummaryFinished(p) =>
            /\ ~inv[p].raised
            /\ IF inv[p].api_raised
               THEN IsErrorEnvelope(inv[p].ret)
               ELSE inv[p].ret = JsonDecode(inv[p].outcome.body).val
            /\ inv[p].outcome = Outcome("ok", 200, BodySummaries)
               => HasSummariesList(inv[p].ret)

C10_Witness ==
    \E p \in Procs :
        /\ SummaryFinished(p)
        /\ inv[p].outcome = Outcome("ok", 200, BodySummaries)
        /\ HasSummariesList(inv[p].ret)


SummaryCalled(p) == Called(p) /\ inv[p].cap = "summary"

SummaryUrl(period) == Str(API_BASE_URL) \o "/health/summary/" \o period

\* C11 as stated: every request to the summary endpoint is GET
\* health/summary/{period} with period in {day, week, month, year}, whatever
\* period the caller passes.
C11_Original ==
    \A p \in Procs :
        SummaryCalled(p) =>
            /\ inv[p].request.method = "GET"
            /\ \E pd \in SupportedPeriods : inv[p].request.url = SummaryUrl(pd)

\* C11 amended: every request to the summary endpoint is GET
\* health/summary/{period} where {period} is the caller's value as passed; it
\* is one of day, week, month, year only when the caller's value is.
C11_SummaryEndpoint ==
    \A p \in Procs :
        SummaryCalled(p) =>
            /\ inv[p].request.method = "GET"
            /\ inv[p].request.url = SummaryUrl(inv[p].period)
            /\ (\E pd \in SupportedPeriods : inv[p].request.url = SummaryUrl(pd))
                   <=> inv[p].period \in SupportedPeriods

C11_Witness ==
    \E p \in Procs :
        /\ SummaryCalled(p) /\ inv[p].period = "decade"
        /\ inv[p].request.url = "https://api.example/health/summary/decade"


Absent(v) == v = PyNone \/ v = PyStr("")

\* C12: when the base URL or the API key is unset or empty at process start,
\* start-up fails and the server never runs: no tool, resource or prompt is
\* served, no upstream request is issued, no value (so no Error Envelope) is
\* ever returned to a caller.
C12_FatalStartup ==
    (Absent(env.SENECHAL_API_BASE_URL) \/ Absent(env.SENECHAL_API_KEY)) =>
        /\ phase \in {"starting", "failed"}
        /\ \A p \in Procs : inv[p] = Idle
        /\ stats = ServerStats
        /\ world = NoTraffic

C12_Witness ==
    /\ phase = "failed"
    /\ API_BASE_URL = PyStr("https://api.example")
    /\ API_KEY = PyStr("")

UpstreamPath(cap, period) ==
    IF cap = "summary" THEN "health/summary/" \o period ELSE "health/" \o cap

\* C13: every upstream request of a tool or resource handler carries the
\* header X-API-Key with the key read at start-up and nothing else, and goes
\* to <base-url>/<upstream-path> of the invoked capability; the key and the
\* base URL never change.
C13_KeyAndTarget ==
    /\ [](\A p \in Procs :
             Called(p) =>
                 /\ inv[p].request.headers = PyDict(<<"X-API-Key">>, <<env.SENECHAL_API_KEY>>)
                 /\ inv[p].request.url =
                        env.SENECHAL_API_BASE_URL.str \o "/" \o UpstreamPath(inv[p].cap, inv[p].period))
    /\ [][env' = env]_vars

C13_Witness ==
    \E p \in Procs :
        /\ Called(p) /\ inv[p].cap = "current"
        /\ inv[p].request.headers = PyDict(<<"X-API-Key">>, <<PyStr("secret-key")>>)
        /\ inv[p].request.url = "https://api.example/health/current"
        /\ stats.api_calls = 2

\* C14: the error counter equals the number of upstream calls that failed
\* (transport failure, status outside 2xx, or a body that does not decode
\* where JSON is expected): each failed call adds one, a successful call none.
C14_ErrorsCountFailures ==
    /\ stats.errors = world.failed
    /\ \A p \in Procs :
           Finished(p) /\ world.invoked = 1 =>
               stats.errors = IF UpstreamFailed(inv[p].outcome, inv[p].expect_json) THEN 1 ELSE 0

C14_Witness ==
    \E p \in Procs :
        /\ Finished(p) /\ stats.errors = 1 /\ world.gets = 2
        /\ Answered2xx(p) /\ ~inv[p].api_raised


\* the counter in which an access to capability cap of the given kind is
\* recorded: ServerStats has one for all tools and one for all resources
AccessCountOf(s, kind, cap) ==
    IF kind = "tool" THEN s.tool_calls ELSE s.resource_requests

\* slot p starts an invocation in this step
Invokes(p) == inv[p].pc = "idle" /\ inv'[p].pc = "awaiting"

\* C15 as stated: an invocation of capability C raises C's access count by
\* one, leaves the access count of every other capability unchanged, and
\* raises the API-call counter by one for its upstream call.
C15_Original ==
    [][\A p \in Procs :
           Invokes(p) =>
               LET k == inv'[p].kind
                   c == inv'[p].cap
               IN /\ AccessCountOf(stats', k, c) = AccessCountOf(stats, k, c) + 1
                  /\ \A k2 \in Handlers, c2 \in Caps :
                         <<k2, c2>> # <<k, c>> =>
                             AccessCountOf(stats', k2, c2) = AccessCountOf(stats, k2, c2)
                  /\ stats'.api_calls = stats.api_calls + 1]_vars

\* C15 amended: a tool call raises tool_calls by one and a run of a resource
\* handler raises resource_requests by one; each of the two counters is shared
\* by all capabilities of its kind and the other one is left unchanged.  The
\* same step raises api_calls by one for the one upstream call.  No other step
\* (a response, a read of a registered resource, a prompt) changes any of the
\* three.
C15_AccessCounters ==
    [][/\ \A p \in Procs :
              Invokes(p) =>
                  /\ stats'.tool_calls =
                         stats.tool_calls + (IF inv'[p].kind = "tool" THEN 1 ELSE 0)
                  /\ stats'.resource_requests =
                         stats.resource_requests + (IF inv'[p].kind = "impl" THEN 1 ELSE 0)
                  /\ stats'.api_calls = stats.api_calls + 1
                  /\ stats'.errors = stats.errors
                  /\ inv'[p].gets = 1
       /\ (\A p \in Procs : ~Invokes(p)) =>
              /\ stats'.tool_calls = stats.tool_calls
              /\ stats'.resource_requests = stats.resource_requests
              /\ stats'.api_calls = stats.api_calls]_vars

C15_Witness ==
    \E p \in Procs :
        /\ Called(p) /\ inv[p].kind = "tool" /\ inv[p].cap = "stats"
        /\ stats.tool_calls = 1 /\ stats.resource_requests = 1 /\ stats.api_calls = 2


SameInvocation(p, q) ==
    /\ inv[p].kind = inv[q].kind
    /\ inv[p].cap = inv[q].cap
    /\ inv[p].period = inv[q].period
    /\ inv[p].args = inv[q].args

\* C16: the counters are never read back.  Two invocations of the same
\* handler with the same parameters, made at different values of api_calls,
\* resource_requests, tool_calls and errors, issue the same upstream request,
\* and when the upstream gives both the same answer they return the same value.
C16_CountersNotRead ==
    \A p, q \in Procs :
        /\ (Called(p) /\ Called(q) /\ SameInvocation(p, q)) =>
               inv[p].request = inv[q].request
        /\ (Finished(p) /\ Finished(q) /\ SameInvocation(p, q)
                /\ inv[p].outcome = inv[q].outcome) =>
               /\ inv[p].ret = inv[q].ret
               /\ inv[p].raised = inv[q].raised

\* the second of two equal failing calls resumed with errors = 1, the first
\* with errors = 0
C16_Witness ==
    \E p, q \in Procs :
        /\ p # q /\ Finished(p) /\ Finished(q) /\ SameInvocation(p, q)
        /\ inv[p].outcome = inv[q].outcome
        /\ inv[p].api_raised
        /\ stats.errors = 2 /\ stats.api_calls = 2


DecodeError(o) ==
    o.transport = "ok" /\ IsSuccess(o.status) /\ ~JsonDecode(o.body).ok

\* slot p resumes from its await in this step
Resumes(p) == inv[p].pc = "awaiting" /\ inv'[p].pc = "done"

\* C17: when the upstream answers a JSON-mode capability 2xx with a body that
\* is not valid JSON, the step that handles the answer raises errors by one
\* and issues no further request, and the invocation returns the Error
\* Envelope of its capability (the one a status error gives) with nothing raised.
C17_DecodeError ==
    /\ [](\A p \in Procs :
             (Finished(p) /\ JsonMode(p) /\ DecodeError(inv[p].outcome)) =>
                 /\ inv[p].api_raised
                 /\ ~inv[p].raised
                 /\ IsErrorEnvelope(inv[p].ret)
                 /\ inv[p].ret.keys = <<"error", "message">>
                 /\ DictGet(inv[p].ret, "message") =
                        DictGet(HandlerExcept(inv[p].kind, inv[p].cap, inv[p].period,
                                              inv[p].args, StatusError(500)), "message")
                 /\ inv[p].gets = 1)
    /\ [][\A p \in Procs :
              (Resumes(p) /\ JsonMode(p) /\ DecodeError(inv'[p].outcome)) =>
                  /\ stats'.errors = stats.errors + 1
                  /\ stats'.api_calls = stats.api_calls
                  /\ world'.gets = world.gets]_vars

C17_Witness ==
    \E p \in Procs :
        /\ Finished(p) /\ inv[p].kind = "tool" /\ inv[p].cap = "current"
        /\ inv[p].outcome = Outcome("ok", 200, BodyMarkdown)
        /\ IsErrorEnvelope(inv[p].ret)
        /\ stats.errors = 1


\* C18: with invocations interleaved at their awaits no increment is lost:
\* at every moment, and so once all have completed, api_calls is the number
\* of upstream calls issued, errors the number of them that failed, and
\* tool_calls plus resource_requests the number of handler invocations, each
\* counter by itself as well.
C18_NoLostIncrement ==
    /\ stats.api_calls = world.gets
    /\ stats.errors = world.failed
    /\ stats.tool_calls + stats.resource_requests = world.invoked
    /\ (\A p \in Procs : inv[p].pc # "awaiting") =>
           stats.errors <= stats.api_calls

\* two invocations were in flight together, both have completed, one failed
C18_Witness ==
    /\ world.overlapped
    /\ \A p \in Procs : Finished(p)
    /\ stats.api_calls = 2 /\ stats.errors = 1
    /\ stats.tool_calls = 1 /\ stats.resource_requests = 1


\* C19: an upstream call that never answers holds up its own invocation only.
\* Every other invocation whose upstream answers returns, under fair
\* scheduling of the resumptions, and what it returns is what the same
\* handler returns for its parameters and its response when run alone.
C19_HangIsLocal ==
    /\ \A p \in Procs \ {HungSlot} : (inv[p].pc = "awaiting") ~> (inv[p].pc = "done")
    /\ [](\A p \in Procs \ {HungSlot} :
              Finished(p) =>
                  LET r == ApiResult(inv[p].outcome, inv[p].expect_json)
                  IN inv[p].ret =
                         IF r.raised
                         THEN HandlerExcept(inv[p].kind, inv[p].cap, inv[p].period,
                                            inv[p].args, r.exc)
                         ELSE r.value)

\* the hung call is still waiting and an invocation that was in flight
\* together with it has returned
C19_Witness ==
    /\ inv[HungSlot].pc = "awaiting"
    /\ world.overlapped
    /\ \E p \in Procs \ {HungSlot} : Finished(p) /\ Answered2xx(p)


TypesTools == {"current", "trends", "stats"}

RECURSIVE CommaList(_)
\* the decimal spellings of a non-empty sequence of ints, commas between them
CommaList(items) ==
    IF Len(items) = 1 THEN ToString(items[1].num)
    ELSE CommaList(SubSeq(items, 1, Len(items) - 1)) \o "," \o ToString(items[Len(items)].num)

\* the caller passed a non-empty list as `types`
PassedTypes(p) ==
    /\ DictHas(inv[p].args, "types")
    /\ DictGet(inv[p].args, "types").kind = "list"
    /\ DictGet(inv[p].args, "types").items # <<>>

\* C20: the request of fetch_current_health, fetch_health_trends and
\* fetch_health_stats has a `types` parameter exactly when the caller passed a
\* non-empty list, and its value is the elements in the caller's order with
\* commas between them; with types omitted, None or [] there is none.
C20_TypesParam ==
    \A p \in Procs :
        (Called(p) /\ inv[p].kind = "tool" /\ inv[p].cap \in TypesTools) =>
            LET params == inv[p].request.params
            IN /\ DictHas(params, "types") <=> PassedTypes(p)
               /\ PassedTypes(p) =>
                      /\ DictGet(params, "types") =
                             PyStr(CommaList(DictGet(inv[p].args, "types").items))
                      /\ DictGet(inv[p].args, "types") = PyList(<<PyInt(2), PyInt(1)>>) =>
                             DictGet(params, "types") = PyStr("2,1")

C20_Witness ==
    \E p \in Procs :
        /\ Called(p) /\ inv[p].kind = "tool" /\ inv[p].cap = "stats"
        /\ PassedTypes(p)
        /\ DictGet(inv[p].args, "types") = PyList(<<PyInt(2), PyInt(1)>>)
        /\ DictGet(inv[p].request.params, "types") = PyStr("2,1")


SummaryTool(p) == Called(p) /\ inv[p].kind = "tool" /\ inv[p].cap = "summary"
SummaryImpl(q) == Called(q) /\ inv[q].kind = "impl" /\ inv[q].cap = "summary"

SuppliesAll(a) == \A n \in Range(SummaryNames) : DictHas(a, n)

\* both callers name the same period and the same parameters with the same spellings
SameSupplied(a, b) ==
    \A n \in Range(SummaryNames) :
        /\ DictHas(a, n) <=> DictHas(b, n)
        /\ DictHas(a, n) /\ DictHas(b, n) => Str(DictGet(a, n)) = Str(DictGet(b, n))

\* C21: fetch_health_summary sends exactly metrics, span and offset to
\* health/summary/{period}, with 'all', 1 and 0 for those the caller omits;
\* the summary resource handler sends exactly those of the three its caller
\* supplied.  The two put the same request on the wire only when the
\* resource's caller supplies all three, and for equal arguments exactly then.
C21_ToolVersusResource ==
    /\ \A p \in Procs :
           SummaryTool(p) =>
               LET a == inv[p].args
                   params == inv[p].request.params
               IN /\ inv[p].request.url = SummaryUrl(inv[p].period)
                  /\ params.keys = <<"metrics", "span", "offset">>
                  /\ DictGet(params, "metrics") =
                         IF DictHas(a, "metrics") THEN DictGet(a, "metrics") ELSE PyStr("all")
                  /\ DictGet(params, "span") =
                         IF DictHas(a, "span") THEN DictGet(a, "span") ELSE PyInt(1)
                  /\ DictGet(params, "offset") =
                         IF DictHas(a, "offset") THEN DictGet(a, "offset") ELSE PyInt(0)
    /\ \A q \in Procs :
           SummaryImpl(q) =>
               LET a == inv[q].args
                   params == inv[q].request.params
               IN /\ inv[q].request.url = SummaryUrl(inv[q].period)
                  /\ Range(params.keys) = {n \in Range(SummaryNames) : DictHas(a, n)}
                  /\ \A n \in Range(params.keys) : DictGet(params, n) = DictGet(a, n)
    /\ \A p, q \in Procs :
           (SummaryTool(p) /\ SummaryImpl(q)) =>
               /\ WireRequest(inv[p].request) = WireRequest(inv[q].request) =>
                      SuppliesAll(inv[q].args)
               /\ (inv[p].period = inv[q].period /\ SameSupplied(inv[p].args, inv[q].args)) =>
                      (WireRequest(inv[p].request) = WireRequest(inv[q].request)
                           <=> SuppliesAll(inv[q].args))

\* the tool called with period only and the resource handler called with the
\* three defaults spelled out send the same request
C21_Witness ==
    \E p, q \in Procs :
        /\ SummaryTool(p) /\ SummaryImpl(q)
        /\ inv[p].args = EmptyDict
        /\ SuppliesAll(inv[q].args)
        /\ WireRequest(inv[p].request) = WireRequest(inv[q].request)
        /\ QueryString(inv[p].request.params) =
               <<(<<"metrics", "all">>), (<<"span", "1">>), (<<"offset", "0">>)>>


\* C22: in every reachable state, whatever the interleaving,
\* 0 <= errors <= api_calls <= tool_calls + resource_requests, and no step
\* lowers any of the four counters.
C22_CounterOrder ==
    /\ [](/\ 0 <= stats.errors
          /\ stats.errors <= stats.api_calls
          /\ stats.api_calls <= stats.tool_calls + stats.resource_requests)
    /\ [][/\ stats'.api_calls >= stats.api_calls
          /\ stats'.resource_requests >= stats.resource_requests
          /\ stats'.tool_calls >= stats.tool_calls
          /\ stats'.errors >= stats.errors]_vars

\* one call has failed while another, started before the failure, is still
\* in flight
C22_Witness ==
    /\ world.overlapped
    /\ \E p, q \in Procs :
           /\ Finished(p) /\ inv[p].api_raised
           /\ inv[q].pc = "awaiting"
    /\ stats.errors = 1 /\ stats.api_calls = 2
    /\ stats.tool_calls + stats.resource_requests = 2


\* slot p serves a prompt in this step
ServesPrompt(p) ==
    inv[p].pc = "idle" /\ inv'[p].pc = "done" /\ inv'[p].kind = "prompt"

\* C23: no step of a tool invocation changes resource_requests and no step
\* of a resource handler changes tool_calls; a prompt request issues no
\* upstream request, changes none of the four counters and returns the fixed
\* text of the prompt, the same whatever the counters are.
C23_Frame ==
    [][\A p \in Procs :
           /\ (Invokes(p) /\ inv'[p].kind = "tool") \/ (Resumes(p) /\ inv[p].kind = "tool") =>
                  stats'.resource_requests = stats.resource_requests
           /\ (Invokes(p) /\ inv'[p].kind = "impl") \/ (Resumes(p) /\ inv[p].kind = "impl") =>
                  stats'.tool_calls = stats.tool_calls
           /\ ServesPrompt(p) =>
                  /\ stats' = stats
                  /\ world'.gets = world.gets
                  /\ inv'[p].gets = 0
                  /\ inv'[p].request = NoRequest
                  /\ inv'[p].cap \in PromptNames
                  /\ inv'[p].ret =
                         IF inv'[p].cap = "analyze_health_summary"
                         THEN analyze_health_summary ELSE compare_health_trends
                  /\ inv'[p].ret.kind = "str"]_vars

\* a prompt served after two upstream calls, one of them failed
C23_Witness ==
    \E p \in Procs :
        /\ inv[p].pc = "done" /\ inv[p].kind = "prompt"
        /\ inv[p].cap = "compare_health_trends"
        /\ inv[p].ret = compare_health_trends
        /\ stats.api_calls = 2 /\ stats.errors = 1
        /\ stats.tool_calls = 1 /\ stats.resource_requests = 1

====
